---- MODULE Spec2Model ----
(***************************************************************************)
(* Model of homework.py: the polling bot that fetches homework statuses    *)
(* over HTTP, validates the response, formats the first record and sends   *)
(* the text through a Telegram bot, forever, sleeping RETRY_PERIOD between *)
(* cycles.                                                                 *)
(*                                                                         *)
(* The Russian string literals of the source are written here in Latin     *)
(* transliteration, because the module's strings are ASCII.  A text built  *)
(* by an f-string is the sequence of its parts (the literal pieces and the *)
(* str() of each substituted value), in order.                             *)
(***************************************************************************)
EXTENDS Naturals, Sequences, FiniteSets, TLC

VARIABLES
    env,        \* the process environment: variable name -> value or NONE
    pc,         \* position of main
    bot,        \* TRUE once telegram.Bot(...) has been constructed
    timestamp,  \* main's local `timestamp`
    http,       \* what the last requests.get did (the outside world's answer)
    response,   \* main's local `response`
    homework,   \* main's local `homework`
    message,    \* main's local `message`
    error,      \* the exception raised in the try body of the current cycle
    trace,      \* the calls made since the current cycle started
    prev        \* how the previous cycle ended: "none", "ok" or "failed"

vars == <<env, pc, bot, timestamp, http, response, homework, message, error,
          trace, prev>>

(***************************************************************************)
(* Bounds of the model                                                     *)
(***************************************************************************)
\* longest homeworks list the API answers with
MaxHomeworks == 2

(***************************************************************************)
(* Python / JSON values.  Every value has the same four fields; `t` is the *)
(* type, the others hold the payload of that type.                         *)
(***************************************************************************)
J(t, s, l, d) == [t |-> t, s |-> s, l |-> l, d |-> d]
JNull == J("null", "", <<>>, <<>>)           \* None
JStr(s) == J("str", s, <<>>, <<>>)
JNum(s) == J("num", s, <<>>, <<>>)           \* a number, by its decimal text
JList(l) == J("list", "", l, <<>>)
JDict(d) == J("dict", "", <<>>, d)           \* d: a function from keys

\* isinstance(v, dict), isinstance(v, list)
IsDict(v) == v.t = "dict"
IsList(v) == v.t = "list"

\* dict.get(key): the value, or None when the key is absent
Get(v, key) == IF key \in DOMAIN v.d THEN v.d[key] ELSE JNull

\* str(v) as an f-string substitutes it
Str(v) ==
    CASE v.t = "null" -> "None"
      [] v.t = "str" -> v.s
      [] v.t = "num" -> v.s
      [] v.t = "list" -> IF v.l = <<>> THEN "[]" ELSE "[...]"
      [] OTHER -> IF DOMAIN v.d = {} THEN "{}" ELSE "{...}"

\* hash(v) succeeds: lists and dicts are unhashable
Hashable(v) == v.t \notin {"list", "dict"}

(***************************************************************************)
(* Exceptions: a class name and the text of str(exception), in parts.      *)
(***************************************************************************)
NONE == "NONE"
Exc(kind, args) == [kind |-> kind, args |-> args]
NoExc == Exc("", <<>>)

\* Classes of the libraries and of the interpreter, with their ancestors.
LibraryBases ==
    [ConnectionError |-> {"RequestException", "Exception"},
     Timeout |-> {"RequestException", "Exception"},
     JSONDecodeError |-> {"RequestException", "ValueError", "Exception"},
     ValueError |-> {"Exception"},
     TypeError |-> {"Exception"},
     KeyError |-> {"Exception"},
     IndexError |-> {"Exception"},
     AttributeError |-> {"Exception"},
     TelegramError |-> {"Exception"},
     NetworkError |-> {"TelegramError", "Exception"},
     InvalidToken |-> {"TelegramError", "Exception"},
     SystemExit |-> {"BaseException"}]

\* Classes of the repository's own module `exceptions` (imported at line 10):
\* plain application errors, not part of the requests hierarchy.
RepoBases ==
    [HTTPStatusError |-> {"Exception"},
     RequestError |-> {"Exception"}]

Bases(kind) ==
    IF kind \in DOMAIN RepoBases THEN RepoBases[kind] ELSE LibraryBases[kind]

\* isinstance(exc, cls), as an except clause tests it
IsInstance(exc, cls) == exc # NoExc /\ (exc.kind = cls \/ cls \in Bases(exc.kind))

\* str(exc): KeyError shows the repr of its single argument, in quotes
StrExc(exc) ==
    IF exc.kind = "KeyError" THEN <<"'">> \o exc.args \o <<"'">> ELSE exc.args

(***************************************************************************)
(* Module constants                                                        *)
(***************************************************************************)
\* os.getenv(name)
getenv(name) == env[name]

PRACTICUM_TOKEN == getenv("PACTICUM_TOKEN")
TELEGRAM_TOKEN == getenv("TELEGRAM_TOKEN")
TELEGRAM_CHAT_ID == getenv("TELEGRAM_CHAT_ID")

RETRY_PERIOD == 600

\* the catalog with the phrases of approved and rejected exchanged
HOMEWORK_VERDICTS_swapped ==
    [approved |-> "Rabota proverena: u revyuera est zamechaniya.",
     reviewing |-> "Rabota vzyata na proverku revyuerom.",
     rejected |-> "Rabota proverena: revyueru vsyo ponravilos. Ura!"]

\* the catalog of lines 24-28: status -> phrase shown to the user
HOMEWORK_VERDICTS ==
    [approved |-> "Rabota proverena: revyueru vsyo ponravilos. Ura!",
     reviewing |-> "Rabota vzyata na proverku revyuerom.",
     rejected |-> "Rabota proverena: u revyuera est zamechaniya."]

HTTP_OK == 200

(***************************************************************************)
(* The functions of the module.  Each returns [raised, ret]: the exception *)
(* it raises (NoExc when it returns) and its return value.                 *)
(***************************************************************************)
Return(v) == [raised |-> NoExc, ret |-> v]
Raise(exc, dflt) == [raised |-> exc, ret |-> dflt]

\* check_tokens: SystemExit when one of the three is None
check_tokens ==
    IF \E env_var \in {PRACTICUM_TOKEN, TELEGRAM_TOKEN, TELEGRAM_CHAT_ID} :
           env_var = NONE
    THEN Raise(Exc("SystemExit", <<"Programma ostanovlena">>), FALSE)
    ELSE Return(TRUE)

\* telegram.Bot(token=...): the library rejects a token that is not one
NewBot(token) ==
    IF token = "" THEN Raise(Exc("InvalidToken", <<"Invalid token">>), FALSE)
    ELSE Return(TRUE)

\* send_message: botResult is what bot.send_message does (NoExc: delivered).
\* Every Exception of the client is caught and logged; ret says whether the
\* text was delivered.
\* (a send_message without its try/except)
send_message_reraises(text, botResult) ==
    IF botResult # NoExc THEN Raise(botResult, FALSE) ELSE Return(TRUE)

send_message(text, botResult) ==
    IF botResult # NoExc /\ ~IsInstance(botResult, "Exception")
    THEN Raise(botResult, FALSE)
    ELSE Return(botResult = NoExc)

\* get_api_answer: h is what requests.get does: h.exc when it raises, else
\* a response with h.status_code whose .json() gives h.body or raises h.jsonExc
get_api_answer_body(ts, h) ==
    IF h.exc # NoExc THEN Raise(h.exc, JNull)
    ELSE IF h.status_code # HTTP_OK
         THEN Raise(Exc("HTTPStatusError", <<"Otvet ne poluchen">>), JNull)
         ELSE IF h.jsonExc # NoExc THEN Raise(h.jsonExc, JNull)
              ELSE Return(h.body)

\* (a get_api_answer that does not look at the status code)
get_api_answer_nocheck(ts, h) ==
    IF h.exc # NoExc
    THEN Raise(Exc("RequestError",
                   <<"Oshibka pri zaprose k API: ">> \o StrExc(h.exc)), JNull)
    ELSE IF h.jsonExc # NoExc THEN Raise(h.jsonExc, JNull)
         ELSE Return(h.body)

get_api_answer(ts, h) ==
    LET r == get_api_answer_body(ts, h)
    IN  IF IsInstance(r.raised, "RequestException")
        THEN Raise(Exc("RequestError",
                       <<"Oshibka pri zaprose k API: ">> \o StrExc(r.raised)),
                   JNull)
        ELSE r

\* (a check_response that does not test the type of homeworks)
check_response_nolistcheck(resp) ==
    IF ~IsDict(resp)
    THEN Raise(Exc("TypeError", <<"Ne yavlyaetsya slovarem">>), JNull)
    ELSE Return(Get(resp, "homeworks"))

\* check_response, lines 95-101
check_response(resp) ==
    IF ~IsDict(resp)
    THEN Raise(Exc("TypeError", <<"Ne yavlyaetsya slovarem">>), JNull)
    ELSE LET homeworks == Get(resp, "homeworks")
         IN  IF ~IsList(homeworks)
             THEN Raise(Exc("TypeError", <<"Ne yavlyaetsya spiskom">>), JNull)
             ELSE Return(homeworks)

\* homeworks[0] in main
FirstOf(homeworks) ==
    CASE homeworks.t = "list" ->
            IF homeworks.l = <<>>
            THEN Raise(Exc("IndexError", <<"list index out of range">>), JNull)
            ELSE Return(homeworks.l[1])
      [] homeworks.t = "str" /\ homeworks.s = "" ->
            Raise(Exc("IndexError", <<"string index out of range">>), JNull)
      [] homeworks.t = "dict" -> Raise(Exc("KeyError", <<"0">>), JNull)
      [] OTHER ->
            Raise(Exc("TypeError", <<"object is not subscriptable">>), JNull)

\* status not in HOMEWORK_VERDICTS: hashing an unhashable status raises
NotInVerdicts(status) ==
    IF ~Hashable(status)
    THEN Raise(Exc("TypeError", <<"unhashable type: ">>
                                \o <<"'" \o status.t \o "'">>), FALSE)
    ELSE Return(~(status.t = "str" /\ status.s \in DOMAIN HOMEWORK_VERDICTS))

\* parse_status
parse_status(hw) ==
    IF ~IsDict(hw)
    THEN Raise(Exc("AttributeError", <<"object has no attribute 'get'">>), <<>>)
    ELSE
    LET homework_name == Get(hw, "homework_name")
        status == Get(hw, "status")
        notIn == NotInVerdicts(status)
    IN  IF homework_name = JNull
        THEN Raise(Exc("KeyError", <<"Net klyucha v slovare">>), <<>>)
        ELSE IF notIn.raised # NoExc THEN Raise(notIn.raised, <<>>)
        ELSE IF notIn.ret \/ status = JNull
        THEN Raise(Exc("KeyError",
                       <<"Nekorrektnyy status domashki ", Str(status)>>), <<>>)
        ELSE LET verdict == HOMEWORK_VERDICTS[status.s]
             IN  Return(<<"Izmenilsya status proverki raboty \"",
                          Str(homework_name), "\". ", verdict>>)

\* f'Vozniknovenie oshibki: {error}'
ErrorMessage(exc) == <<"Vozniknovenie oshibki: ">> \o StrExc(exc)

(***************************************************************************)
(* What the outside world can do: the environment the process starts in,   *)
(* the answers of the API and the behaviour of the Telegram client.        *)
(***************************************************************************)
EnvNames == {"PACTICUM_TOKEN", "PRACTICUM_TOKEN", "TELEGRAM_TOKEN",
             "TELEGRAM_CHAT_ID"}
\* unset, set to the empty string, set to a usable value
EnvValues == {NONE, "", "valid"}

\* a homework record with the given fields; <<>> leaves the field out
Mk(name, status) ==
    JDict([k \in (IF name = <<>> THEN {} ELSE {"homework_name"})
                 \cup (IF status = <<>> THEN {} ELSE {"status"}) |->
              IF k = "homework_name" THEN name[1] ELSE status[1]])

NameFields == {<<>>, <<JNull>>, <<JStr("Project X")>>, <<JStr("Project Y")>>}
StatusStrings == {"approved", "reviewing", "rejected", "pending"}
StatusFields == {<<>>, <<JNull>>, <<JList(<<>>)>>}
                \cup {<<JStr(s)>> : s \in StatusStrings}

DictRecords == {Mk(n, s) : n \in NameFields, s \in StatusFields}
FirstRecords == DictRecords \cup {JNum("5")}
TailRecords == {Mk(<<JStr("Other")>>, <<JStr("approved")>>),
                Mk(<<JStr("Other")>>, <<JStr("pending")>>)}

Tails(n) == UNION {[1..k -> TailRecords] : k \in 0..n}
HomeworkLists ==
    {<<>>} \cup {<<f>> \o t : f \in FirstRecords, t \in Tails(MaxHomeworks - 1)}

MappingBodies ==
    {JDict([homeworks |-> JList(l)]) : l \in HomeworkLists}
    \cup {JDict([homeworks |-> JList(<<>>), current_date |-> JNum("1700000000")]),
          JDict(<<>>),
          JDict([current_date |-> JNum("1700000000")]),
          JDict([homeworks |-> JNull]),
          JDict([homeworks |-> JNum("1")]),
          JDict([homeworks |-> JStr("")]),
          JDict([homeworks |-> JDict(<<>>)])}
OtherBodies ==
    {JList(<<>>), JList(<<Mk(<<JStr("Project X")>>, <<JStr("approved")>>)>>),
     JStr("Internal error"), JNull, JNum("0")}
Bodies == MappingBodies \cup OtherBodies

StatusCodes == {200, 204, 404, 503}
ErrorBodies == {JDict([homeworks |-> JList(<<Mk(<<JStr("Project X")>>,
                                                 <<JStr("approved")>>)>>)]),
                JDict([message |-> JStr("Service unavailable")])}

Http(exc, code, jsonExc, body) ==
    [exc |-> exc, status_code |-> code, jsonExc |-> jsonExc, body |-> body]
NoHttp == Http(NoExc, 0, NoExc, JNull)

\* .json() on a body that is no JSON: requests.exceptions.JSONDecodeError in
\* current releases of requests, a bare ValueError in older ones
JsonErrors == {Exc("JSONDecodeError", <<"Expecting value">>),
               Exc("ValueError", <<"Expecting value">>)}

HttpOutcomes ==
    {Http(e, 0, NoExc, JNull) :
        e \in {Exc("ConnectionError", <<"Connection refused">>),
               Exc("Timeout", <<"Read timed out">>)}}
    \cup {Http(NoExc, HTTP_OK, NoExc, b) : b \in Bodies}
    \cup {Http(NoExc, c, NoExc, b) : c \in StatusCodes \ {HTTP_OK}, b \in ErrorBodies}
    \cup {Http(NoExc, c, j, JNull) : c \in StatusCodes, j \in JsonErrors}

\* what bot.send_message does: NoExc when the text is delivered
BotResults == {NoExc,
               Exc("NetworkError", <<"Timed out">>),
               Exc("TelegramError", <<"Chat not found">>)}

(***************************************************************************)
(* The calls of one cycle, in order                                        *)
(***************************************************************************)
Ev(op, n, text, ok) == [op |-> op, n |-> n, text |-> text, ok |-> ok]

(***************************************************************************)
(* The process                                                             *)
(***************************************************************************)
Init ==
    /\ env \in [EnvNames -> EnvValues]
    /\ pc = "main"
    /\ bot = FALSE
    /\ timestamp = NONE
    /\ http = NoHttp
    /\ response = JNull
    /\ homework = JNull
    /\ message = <<>>
    /\ error = NoExc
    /\ trace = <<>>
    /\ prev = "none"

\* main, lines 129-135: check_tokens(), the bot, timestamp = 0
Start ==
    /\ pc = "main"
    /\ IF check_tokens.raised # NoExc
       THEN /\ pc' = "exit"
            /\ UNCHANGED <<bot, timestamp>>
       ELSE IF NewBot(TELEGRAM_TOKEN).raised # NoExc
            THEN /\ pc' = "crashed"
                 /\ UNCHANGED <<bot, timestamp>>
            ELSE /\ bot' = TRUE
                 /\ timestamp' = 0
                 /\ pc' = "get_api_answer"
    /\ UNCHANGED <<env, http, response, homework, message, error, trace, prev>>

\* line 138: response = get_api_answer(timestamp), first statement of a cycle
GetApiAnswer ==
    /\ pc = "get_api_answer"
    /\ \E h \in HttpOutcomes :
          LET r == get_api_answer(timestamp, h)
          IN  /\ http' = h
              /\ trace' = <<Ev("get_api_answer", timestamp, <<>>, r.raised = NoExc)>>
              /\ error' = r.raised
              /\ IF r.raised = NoExc
                 THEN response' = r.ret /\ pc' = "check_response"
                 ELSE response' = response /\ pc' = "except"
    /\ UNCHANGED <<env, bot, timestamp, homework, message, prev>>

\* line 139: check_response(response); the returned list is dropped
CheckResponse ==
    /\ pc = "check_response"
    /\ LET r == check_response(response)
       IN  /\ trace' = Append(trace, Ev("check_response", 0, <<>>, r.raised = NoExc))
           /\ error' = r.raised
           /\ pc' = IF r.raised = NoExc THEN "index" ELSE "except"
    /\ UNCHANGED <<env, bot, timestamp, http, response, homework, message, prev>>

\* lines 140-141: homeworks = response.get('homeworks'); homework = homeworks[0]
Index ==
    /\ pc = "index"
    /\ LET r == IF IsDict(response)
                THEN FirstOf(Get(response, "homeworks"))
                ELSE Raise(Exc("AttributeError",
                               <<"object has no attribute 'get'">>), JNull)
       IN  /\ trace' = Append(trace, Ev("homeworks[0]", 0, <<>>, r.raised = NoExc))
           /\ error' = r.raised
           /\ IF r.raised = NoExc
              THEN homework' = r.ret /\ pc' = "parse_status"
              ELSE homework' = homework /\ pc' = "except"
    /\ UNCHANGED <<env, bot, timestamp, http, response, message, prev>>

\* line 142: message = parse_status(homework)
ParseStatus ==
    /\ pc = "parse_status"
    /\ LET r == parse_status(homework)
       IN  /\ trace' = Append(trace, Ev("parse_status", 0, <<>>, r.raised = NoExc))
           /\ error' = r.raised
           /\ IF r.raised = NoExc
              THEN message' = r.ret /\ pc' = "send_message"
              ELSE message' = message /\ pc' = "except"
    /\ UNCHANGED <<env, bot, timestamp, http, response, homework, prev>>

\* line 143: send_message(bot, message) in the try body
SendMessage ==
    /\ pc = "send_message"
    /\ \E b \in BotResults :
          LET r == send_message(message, b)
          IN  /\ trace' = Append(trace, Ev("send_message", 0, message, r.ret))
              /\ error' = r.raised
              /\ pc' = IF r.raised = NoExc THEN "sleep" ELSE "except"
    /\ UNCHANGED <<env, bot, timestamp, http, response, homework, message, prev>>

\* (a loop without the except clause: the error leaves through finally)
Except_reraises ==
    /\ pc = "except"
    /\ pc' = "sleep_raising"
    /\ UNCHANGED <<env, bot, timestamp, http, response, homework, message, error,
                   trace, prev>>

\* lines 144-147: except Exception as error: the text, the log, the notification.
\* An exception that is no Exception, or one raised here, leaves through finally.
Except ==
    /\ pc = "except"
    /\ IF IsInstance(error, "Exception")
       THEN /\ message' = ErrorMessage(error)
            /\ \E b \in BotResults :
                  LET r == send_message(message', b)
                  IN  /\ trace' = Append(trace, Ev("send_message", 0, message', r.ret))
                      /\ IF r.raised = NoExc
                         THEN error' = error /\ pc' = "sleep"
                         ELSE error' = r.raised /\ pc' = "sleep_raising"
       ELSE /\ pc' = "sleep_raising"
            /\ UNCHANGED <<message, error, trace>>
    /\ UNCHANGED <<env, bot, timestamp, http, response, homework, prev>>

\* a loop that moves the cursor on after each cycle
Sleep_advances ==
    /\ pc \in {"sleep", "sleep_raising"}
    /\ trace' = Append(trace, Ev("sleep", RETRY_PERIOD, <<>>, TRUE))
    /\ prev' = IF error = NoExc THEN "ok" ELSE "failed"
    /\ pc' = IF pc = "sleep" THEN "get_api_answer" ELSE "crashed"
    /\ http' = NoHttp
    /\ response' = JNull
    /\ homework' = JNull
    /\ message' = <<>>
    /\ error' = IF pc = "sleep" THEN NoExc ELSE error
    /\ timestamp' = timestamp + RETRY_PERIOD
    /\ UNCHANGED <<env, bot>>

\* lines 148-149: finally: time.sleep(RETRY_PERIOD), then the next cycle, or
\* the exception that was on its way out ends main.  The locals of the cycle
\* that ended are dead (the next cycle assigns each before it reads it), so
\* they are cleared here; the calls of that cycle stay in the trace until the
\* next one starts.
Sleep ==
    /\ pc \in {"sleep", "sleep_raising"}
    /\ trace' = Append(trace, Ev("sleep", RETRY_PERIOD, <<>>, TRUE))
    /\ prev' = IF error = NoExc THEN "ok" ELSE "failed"
    /\ pc' = IF pc = "sleep" THEN "get_api_answer" ELSE "crashed"
    /\ http' = NoHttp
    /\ response' = JNull
    /\ homework' = JNull
    /\ message' = <<>>
    /\ error' = IF pc = "sleep" THEN NoExc ELSE error
    /\ UNCHANGED <<env, bot, timestamp>>

Next ==
    \/ Start
    \/ GetApiAnswer
    \/ CheckResponse
    \/ Index
    \/ ParseStatus
    \/ SendMessage
    \/ Except
    \/ Sleep

Spec == Init /\ [][Next]_vars

\* main is one sequential thread: whatever statement it is at gets executed
FairSpec == Spec /\ WF_vars(Next)

(***************************************************************************)
(* Vocabulary of the properties                                            *)
(***************************************************************************)
LoopPcs == {"get_api_answer", "check_response", "index", "parse_status",
            "send_message", "except", "sleep"}
\* positions inside a cycle, after its first call
CyclePcs == {"check_response", "index", "parse_status", "send_message",
             "except", "sleep", "sleep_raising"}
InLoop == pc \in LoopPcs

Contains(seq, x) == \E i \in DOMAIN seq : seq[i] = x
Count(op) == Cardinality({i \in DOMAIN trace : trace[i].op = op})
\* op was called in the cycle that is running
Done(op) == pc \in CyclePcs /\ Count(op) > 0
\* op is the call the cycle has just made
JustDid(op) == pc \in CyclePcs /\ trace # <<>> /\ trace[Len(trace)].op = op
Sends == SelectSeq(trace, LAMBDA e : e.op = "send_message")

IsStatusText(text) == text # <<>> /\ text[1] = "Izmenilsya status proverki raboty \""

\* a stage before the notification failed in the running cycle
StageFailed ==
    /\ pc \in CyclePcs
    /\ \E i \in DOMAIN trace :
          /\ trace[i].op \in {"get_api_answer", "check_response", "homeworks[0]",
                              "parse_status"}
          /\ ~trace[i].ok

AllCredentials ==
    \A v \in {PRACTICUM_TOKEN, TELEGRAM_TOKEN, TELEGRAM_CHAT_ID} :
        v # NONE /\ v # ""

IsKnownStatus(v) == v.t = "str" /\ v.s \in {"approved", "reviewing", "rejected"}

\* the phrases of the catalog, as the source spells them
VerdictPhrase(s) ==
    CASE s = "approved" -> "Rabota proverena: revyueru vsyo ponravilos. Ura!"
      [] s = "reviewing" -> "Rabota vzyata na proverku revyuerom."
      [] s = "rejected" -> "Rabota proverena: u revyuera est zamechaniya."

(***************************************************************************)
(* C1: once the loop is entered it is never left: whatever a cycle raises, *)
(* the cycle reaches its sleep, sleeps exactly once for RETRY_PERIOD, and  *)
(* a new cycle starts, forever.                                            *)
(***************************************************************************)
OneSleepPerCycle ==
    (pc = "get_api_answer" /\ trace # <<>>) =>
        /\ Count("sleep") = 1
        /\ trace[Len(trace)] = Ev("sleep", RETRY_PERIOD, <<>>, TRUE)

C1_LoopNeverEnds ==
    /\ [][InLoop => InLoop']_vars
    /\ [](pc \in CyclePcs => Count("sleep") = 0)
    /\ []OneSleepPerCycle
    /\ [](InLoop => <>(pc = "sleep"))
    /\ [](pc = "sleep" => <>(pc = "get_api_answer" /\ trace # <<>>))

C1_Witness ==
    pc = "get_api_answer" /\ prev = "failed" /\ Count("sleep") = 1

(***************************************************************************)
(* C2: a cycle in which the fetch, the validation, the extraction or the   *)
(* formatting failed attempts exactly one notification, whose text is the  *)
(* error prefix followed by str(error) (with the offending status in it    *)
(* when the status is unrecognized), and no status-change message.         *)
(***************************************************************************)
UnrecognizedStatus ==
    /\ Done("parse_status")
    /\ IsDict(homework)
    /\ Get(homework, "homework_name") # JNull
    /\ ~IsKnownStatus(Get(homework, "status"))

C2_FailedCycleNotifiesError ==
    (StageFailed /\ pc \in {"sleep", "sleep_raising"}) =>
        /\ Len(Sends) = 1
        /\ Sends[1].text = <<"Vozniknovenie oshibki: ">> \o StrExc(error)
        /\ ~IsStatusText(Sends[1].text)
        /\ UnrecognizedStatus =>
              Contains(Sends[1].text, Str(Get(homework, "status")))

(***************************************************************************)
(* C3: a send_message whose bot call raised returns normally: no later     *)
(* notification follows it in the cycle, a failed status message leaves no *)
(* error behind, and the cycle is at (or past) its sleep.                  *)
(***************************************************************************)
C3_SendFailureSwallowed ==
    \A i \in DOMAIN trace :
        (trace[i].op = "send_message" /\ ~trace[i].ok) =>
            /\ pc \in {"sleep", "get_api_answer"}
            /\ \A j \in DOMAIN trace : j > i => trace[j].op = "sleep"
            /\ Count("send_message") = 1
            /\ (IsStatusText(trace[i].text) /\ pc = "sleep") => error = NoExc

C3_Witness ==
    /\ pc = "sleep"
    /\ Len(Sends) = 1
    /\ ~Sends[1].ok
    /\ IsStatusText(Sends[1].text)

(***************************************************************************)
(* C4: the bot is created and the loop is entered only when all three      *)
(* credentials are present and non-empty.                                  *)
(***************************************************************************)
C4_LoopOnlyWithAllCredentials ==
    (InLoop \/ bot \/ trace # <<>>) => AllCredentials

(***************************************************************************)
(* C5: a response whose homeworks list is empty passes check_response and  *)
(* the cycle attempts no notification at all.                              *)
(***************************************************************************)
EmptyHomeworks ==
    /\ Done("check_response")
    /\ IsDict(response)
    /\ Get(response, "homeworks") = JList(<<>>)

C5_EmptyHomeworksNoNotification ==
    EmptyHomeworks =>
        /\ \A i \in DOMAIN trace : trace[i].op = "check_response" => trace[i].ok
        /\ Count("send_message") = 0

(***************************************************************************)
(* C6: a response that is no mapping, or whose homeworks is absent or no   *)
(* list, makes check_response raise TypeError, and neither homeworks[0]    *)
(* nor parse_status is reached in that cycle.                              *)
(***************************************************************************)
BadShape(r) ==
    \/ r.t # "dict"
    \/ "homeworks" \notin DOMAIN r.d
    \/ r.d["homeworks"].t # "list"

C6_ShapeErrorBeforeParsing ==
    (Done("check_response") /\ BadShape(response)) =>
        /\ error.kind = "TypeError"
        /\ \A i \in DOMAIN trace : trace[i].op = "check_response" => ~trace[i].ok
        /\ Count("homeworks[0]") = 0
        /\ Count("parse_status") = 0
        /\ pc \in {"except", "sleep"}

C6_Witness ==
    /\ pc = "sleep"
    /\ Done("check_response")
    /\ IsDict(response)
    /\ "homeworks" \in DOMAIN response.d
    /\ BadShape(response)

(***************************************************************************)
(* C7: parse_status raises KeyError exactly when the name is missing/null  *)
(* or the status is missing/null or no key of the catalog; the name is     *)
(* checked first, and the error of an unrecognized status carries it.      *)
(***************************************************************************)
C7_ParseStatusKeyError ==
    (JustDid("parse_status") /\ IsDict(homework)) =>
        LET name == Get(homework, "homework_name")
            status == Get(homework, "status")
        IN  /\ (error.kind = "KeyError") <=> (name = JNull \/ ~IsKnownStatus(status))
            /\ (error = NoExc) <=> (name # JNull /\ IsKnownStatus(status))
            /\ name = JNull => error = Exc("KeyError", <<"Net klyucha v slovare">>)
            /\ (name # JNull /\ ~IsKnownStatus(status)) =>
                  Contains(error.args, Str(status))

(***************************************************************************)
(* C8: the catalog knows exactly three statuses (approved, reviewing,      *)
(* rejected); for each of them and any name parse_status returns a message *)
(* that holds the name and the phrase of that status.                      *)
(***************************************************************************)
KnownStatusCase ==
    /\ JustDid("parse_status")
    /\ IsDict(homework)
    /\ Get(homework, "homework_name") # JNull
    /\ Get(homework, "status").t = "str"
    /\ Get(homework, "status").s \in DOMAIN HOMEWORK_VERDICTS

KnownStatusResult ==
    /\ error = NoExc
    /\ pc = "send_message"
    /\ Get(homework, "status").s \in {"approved", "reviewing", "rejected"}
    /\ Contains(message, Str(Get(homework, "homework_name")))
    /\ Contains(message, VerdictPhrase(Get(homework, "status").s))

C8_ThreeKnownStatuses ==
    /\ Cardinality(DOMAIN HOMEWORK_VERDICTS) = 3
    /\ KnownStatusCase => KnownStatusResult

\* the claim as stated: the known statuses are four
C8_FourKnownStatuses ==
    KnownStatusCase =>
        /\ Cardinality(DOMAIN HOMEWORK_VERDICTS) = 4
        /\ KnownStatusResult

C8_Witness ==
    /\ pc = "send_message"
    /\ JustDid("parse_status")
    /\ Get(homework, "status") = JStr("rejected")
    /\ Get(homework, "homework_name") = JStr("Project Y")

(***************************************************************************)
(* C9: a response whose status code is not 200 makes get_api_answer raise  *)
(* HTTPStatusError and return nothing; a body is returned only for 200;    *)
(* an exception of requests.get becomes RequestError with its text.        *)
(***************************************************************************)
C9_HttpStatusDecides ==
    JustDid("get_api_answer") =>
        /\ (http.exc = NoExc /\ http.status_code # 200) =>
              /\ pc = "except"
              /\ error.kind = "HTTPStatusError"
              /\ response = JNull
        /\ pc = "check_response" =>
              /\ http.exc = NoExc
              /\ http.status_code = 200
              /\ http.jsonExc = NoExc
              /\ response = http.body
        /\ http.exc # NoExc =>
              /\ pc = "except"
              /\ error = Exc("RequestError",
                             <<"Oshibka pri zaprose k API: ">> \o http.exc.args)

C9_Witness ==
    /\ JustDid("get_api_answer")
    /\ http.status_code = 503
    /\ http.body # JNull
    /\ pc = "except"

(***************************************************************************)
(* C10: every get_api_answer is called with from_date 0, whatever cycles   *)
(* came before, and the one record a cycle looks at is homeworks[0].       *)
(***************************************************************************)
C10_CursorNeverAdvanced ==
    /\ InLoop => timestamp = 0
    /\ \A i \in DOMAIN trace : trace[i].op = "get_api_answer" => trace[i].n = 0
    /\ Count("homeworks[0]") <= 1
    /\ Count("parse_status") <= 1
    /\ pc \in {"parse_status", "send_message"} =>
          homework = Get(response, "homeworks").l[1]

C10_Witness ==
    /\ pc = "parse_status"
    /\ prev = "failed"
    /\ trace[1] = Ev("get_api_answer", 0, <<>>, TRUE)
    /\ Len(Get(response, "homeworks").l) = 2

====
